---------------------------- MODULE Spec2Model ----------------------------
(***************************************************************************)
(* nova-lxd: the container lifecycle operations (LXDContainerOperations,   *)
(* nclxd/nova/virt/lxd/container_ops.py) and the container lookup by name  *)
(* criteria (nova/virt/lxd/common.py).                                     *)
(*                                                                         *)
(* A behaviour is one driver call.  `calls' is the trace of the calls       *)
(* the executing operation has made to its collaborators (remote LXD       *)
(* client, container_utils, VIF driver, virtapi, local checks); `exc' is   *)
(* the exception that left the operation, `ret' the value it returned.     *)
(* The collaborators' answers are inputs, drawn with \E where they are     *)
(* given.                                                                  *)
(***************************************************************************)
EXTENDS Integers, Sequences, FiniteSets, TLC

VARIABLES
    vif_plugging_is_fatal,  \* CONF.vif_plugging_is_fatal
    vif_plugging_timeout,   \* CONF.vif_plugging_timeout (seconds, 0 = no wait)
    neutron,                \* utils.is_neutron()
    op,                     \* the driver call in progress, "none" when idle
    pc,                     \* position inside the call
    calls,                  \* collaborator calls issued by the call, in order
    exc,                    \* exception raised to the caller, "none" if none
    ret,                    \* value returned to the caller, "unset" until then
    instance,               \* the instance record the call was given
    network_info,           \* the sequence of VIFs the call was given
    suffix,                 \* get_container: the suffix argument
    containers,             \* get_container: names defined on the LXD host
    idx,                    \* loop position (criteria or VIFs)
    events,                 \* start_instance: the events waited for
    waitOutcome,            \* start_instance: how the event wait ended
    opStatus,               \* status of the remote start operation
    containerState,         \* destroy: state the container was found in
    console_log             \* get_console_output: size of the console log

vars == <<vif_plugging_is_fatal, vif_plugging_timeout, neutron, op, pc, calls,
          exc, ret, instance, network_info, suffix, containers, idx, events,
          waitOutcome, opStatus, containerState, console_log>>

conf == <<vif_plugging_is_fatal, vif_plugging_timeout, neutron>>

-----------------------------------------------------------------------------
(* Bounds *)

MaxVifs == 3            \* longest network_info
MaxId == 255            \* largest numeric instance id
MaxEphemeralGb == 1     \* largest ephemeral_gb of a flavor
MaxTimeout == 1         \* largest vif_plugging_timeout
MaxOverrun == 2         \* most bytes a console log has beyond the limit

-----------------------------------------------------------------------------
(* Values *)

None == "None"

HexChar == <<"0", "1", "2", "3", "4", "5", "6", "7",
             "8", "9", "a", "b", "c", "d", "e", "f">>

\* "%x" % n
RECURSIVE Hex(_)
Hex(n) == IF n < 16 THEN HexChar[n + 1]
          ELSE Hex(n \div 16) \o HexChar[(n % 16) + 1]

\* the zero flag with a minimum field width: "%0<w>x"
RECURSIVE ZeroPad(_, _)
ZeroPad(s, w) == IF Len(s) >= w THEN s ELSE ZeroPad("0" \o s, w)

LegacyName_NoPad(id) == "instance-" \o Hex(id)

\* "instance-%08x" % instance.id
LegacyName(id) == "instance-" \o ZeroPad(Hex(id), 8)

Ids == {0, 10, 171, MaxId}

\* The name nova gave the instance under the historical template: the
\* prefix and the eight hexadecimal digits of the id, most significant first.
HistoricalName(id) ==
    "instance-" \o HexChar[((id \div 268435456) % 16) + 1]
                \o HexChar[((id \div 16777216) % 16) + 1]
                \o HexChar[((id \div 1048576) % 16) + 1]
                \o HexChar[((id \div 65536) % 16) + 1]
                \o HexChar[((id \div 4096) % 16) + 1]
                \o HexChar[((id \div 256) % 16) + 1]
                \o HexChar[((id \div 16) % 16) + 1]
                \o HexChar[(id % 16) + 1]

\* instance.name: the name under a changed template, or the historical one
InstanceNames(id) == {"vm-a", HistoricalName(id)}

\* a VIF of network_info: vif['id'] and vif.get('active'), "absent" when the
\* VIF has no such key
VifId(i) == "vif-" \o Hex(i)

NetworkInfos ==
    UNION {{[i \in 1..n |-> [id |-> VifId(i), active |-> a[i]]] :
              a \in [1..n -> {"True", "False", "absent"}]} : n \in 0..MaxVifs}

Suffixes == {"", "-rescue"}

NoInstance == [name |-> "", id |-> 0, ephemeral_gb |-> 0, swap |-> FALSE]

Call(fn, arg, res) == [fn |-> fn, arg |-> arg, res |-> res]

CallsOf(fn) == {i \in 1..Len(calls) : calls[i].fn = fn}

Issued(fn) == CallsOf(fn) # {}

-----------------------------------------------------------------------------
(* nova/virt/lxd/common.py *)

get_instance_criteria_LegacyFirst(inst) == <<LegacyName(inst.id), inst.name>>

get_instance_criteria(inst) == <<inst.name, LegacyName(inst.id)>>

instance_criteria_SuffixFirstOnly(inst, sfx) ==
    [i \in 1..Len(get_instance_criteria(inst)) |->
        IF i = 1 THEN get_instance_criteria(inst)[i] \o sfx
        ELSE get_instance_criteria(inst)[i]]

\* map(lambda x : x + suffix, get_instance_criteria(instance))
instance_criteria(inst, sfx) ==
    [i \in 1..Len(get_instance_criteria(inst)) |->
        get_instance_criteria(inst)[i] \o sfx]

\* What client.containers.get(name) can answer: the container (named here by
\* its name) when it is defined, a miss (NotFound raised, or no object) when
\* it is not, and at any time an error that is no miss.
RemoteGet(cs, name) ==
    (IF name \in cs THEN {[kind |-> "found", obj |-> name]}
     ELSE {[kind |-> "NotFound", obj |-> None],
           [kind |-> "none", obj |-> None]})
    \cup {[kind |-> "TransientRemoteError", obj |-> None]}

Raises(resp) == resp.kind \in {"NotFound", "TransientRemoteError"}

Returned_NoNoneCheck(resp) == ~Raises(resp)

\* the try body of the loop: a non-None answer is returned
Returned(resp) == ~Raises(resp) /\ resp.obj # None

Init ==
    /\ vif_plugging_is_fatal \in BOOLEAN
    /\ vif_plugging_timeout \in 0..MaxTimeout
    /\ neutron \in BOOLEAN
    /\ op = "none"
    /\ pc = "idle"
    /\ calls = <<>>
    /\ exc = "none"
    /\ ret = "unset"
    /\ instance = NoInstance
    /\ network_info = <<>>
    /\ suffix = ""
    /\ containers = {}
    /\ idx = 0
    /\ events = <<>>
    /\ waitOutcome = "none"
    /\ opStatus = "none"
    /\ containerState = "none"
    /\ console_log = 0

\* get_container(client, instance, suffix)
CallGetContainer ==
    /\ pc = "idle"
    /\ \E id \in Ids, sfx \in Suffixes :
         \E name \in InstanceNames(id) :
           \E cs \in SUBSET {n \o s : n \in InstanceNames(id), s \in Suffixes} :
              /\ instance' = [NoInstance EXCEPT !.name = name, !.id = id]
              /\ suffix' = sfx
              /\ containers' = cs
    /\ op' = "get_container"
    /\ pc' = "criteria"
    /\ idx' = 1
    /\ UNCHANGED <<conf, containerState, console_log,
                   calls, exc, ret, network_info, events, waitOutcome,
                   opStatus>>

\* one iteration of `for criteria in instance_criteria', and the
\* `return None' that follows the last one
GetContainerQuery ==
    /\ pc = "criteria"
    /\ LET crit == instance_criteria(instance, suffix) IN
       \E resp \in RemoteGet(containers, crit[idx]) :
          /\ calls' = Append(calls, Call("containers.get", crit[idx], resp.kind))
          /\ IF Returned(resp)
             THEN /\ ret' = resp.obj
                  /\ pc' = "done"
                  /\ idx' = idx
             ELSE IF idx < Len(crit)
             THEN /\ idx' = idx + 1
                  /\ UNCHANGED <<ret, pc>>
             ELSE /\ ret' = None
                  /\ pc' = "done"
                  /\ idx' = idx
    /\ UNCHANGED <<conf, containerState, console_log,
                   op, exc, instance, network_info, suffix, containers,
                   events, waitOutcome, opStatus>>

-----------------------------------------------------------------------------
(* nclxd/nova/virt/lxd/container_ops.py *)

\* from nova.i18n import _, _LW
i18n_imports == {"_", "_LW"}

VirtualInterfaceCreateException == "VirtualInterfaceCreateException"

RECURSIVE get_neutron_events_NotTrue(_)
get_neutron_events_NotTrue(ni) ==
    IF ni = <<>> THEN <<>>
    ELSE (IF Head(ni).active # "True"
          THEN <<<<"network-vif-plugged", Head(ni).id>>>> ELSE <<>>)
         \o get_neutron_events_NotTrue(Tail(ni))

\* [('network-vif-plugged', vif['id'])
\*  for vif in network_info if vif.get('active', True) is False]
RECURSIVE get_neutron_events(_)
get_neutron_events(ni) ==
    IF ni = <<>> THEN <<>>
    ELSE (IF Head(ni).active = "False"
          THEN <<<<"network-vif-plugged", Head(ni).id>>>> ELSE <<>>)
         \o get_neutron_events(Tail(ni))

\* The exception _neutron_failed_callback raises, "none" when it returns.
\* LOG.error(_LE(...)) comes first, and _LE is not among the names imported
\* from nova.i18n.
neutron_failed_callback(fatal) ==
    IF "_LE" \notin i18n_imports THEN "NameError"
    ELSE IF fatal THEN VirtualInterfaceCreateException
    ELSE "none"

\* How virtapi.wait_for_instance_event can end once the body of the `with'
\* has run: every event arrived; an event arrived with a failed status
\* (error_callback is called); the deadline elapsed (eventlet's Timeout is
\* raised in the waiting thread).  Without events there is nothing to wait
\* for.
WaitOutcomes(evs) ==
    IF evs = <<>> THEN {"ok"} ELSE {"ok", "failed", "timeout"}

\* the exception that leaves the `with' statement, "none" if none
WaitRaises(outcome, fatal) ==
    CASE outcome = "ok" -> "none"
      [] outcome = "failed" -> neutron_failed_callback(fatal)
      [] outcome = "timeout" -> "Timeout"

\* except exception.VirtualInterfaceCreateException: LOG.info(...)
CaughtInStart(e) == e = VirtualInterfaceCreateException

\* what vif_driver.plug can answer
PlugResults == {"ok", VirtualInterfaceCreateException, "NovaException"}

SpawnRejects_Never(defined) == FALSE

\* if self.container_utils.container_defined(instance): raise InstanceExists
SpawnRejects(defined) == defined

SwapRejected_Never(inst) == FALSE

\* if driver.swap_is_usable(swap): raise
SwapRejected(inst) == inst.swap

EphemeralRejected_Negative(inst) == inst.ephemeral_gb < 0

\* if ephemeral_gb > 0: raise
EphemeralRejected(inst) == inst.ephemeral_gb > 0

\* data.get('operation').split('/')[3] of '/1.0/operations/<id>'
OperationPath == <<"", "1.0", "operations", "op-1">>

OperationHandle == OperationPath[3 + 1]

Raise(e) ==
    /\ exc' = e
    /\ pc' = "done"

\* spawn(context, instance, image_meta, injected_files, admin_password,
\*       network_info, block_device_info)
CallSpawn ==
    /\ pc = "idle"
    /\ \E gb \in 0..MaxEphemeralGb, sw \in BOOLEAN :
          instance' = [NoInstance EXCEPT !.name = "vm-a", !.ephemeral_gb = gb,
                                         !.swap = sw]
    /\ network_info' \in NetworkInfos
    /\ op' = "spawn"
    /\ pc' = "spawn"
    /\ UNCHANGED <<conf, containerState, console_log,
                   calls, exc, ret, suffix, containers, idx, events,
                   waitOutcome, opStatus>>

\* spawn: the existence check
SpawnCheckDefined ==
    /\ pc = "spawn"
    /\ \E defined \in BOOLEAN :
          /\ calls' = Append(calls, Call("container_defined", instance.name,
                                         IF defined THEN "True" ELSE "False"))
          /\ IF SpawnRejects(defined)
             THEN Raise("InstanceExists")
             ELSE pc' = "create_instance" /\ exc' = exc
    /\ UNCHANGED <<conf, containerState, console_log,
                   op, ret, instance, network_info, suffix, containers,
                   idx, events, waitOutcome, opStatus>>

\* create_instance: the working directory and the swap check
CreateInstanceDirAndSwap ==
    /\ pc = "create_instance"
    /\ calls' = calls \o <<Call("ensure_tree", instance.name, "ok"),
                           Call("swap_is_usable", instance.name,
                                IF instance.swap THEN "True" ELSE "False")>>
    /\ IF SwapRejected(instance)
       THEN Raise("NovaException: Swap space is not supported by LXD.")
       ELSE pc' = "ephemeral" /\ exc' = exc
    /\ UNCHANGED <<conf, containerState, console_log,
                   op, ret, instance, network_info, suffix, containers,
                   idx, events, waitOutcome, opStatus>>

\* create_instance: the ephemeral block device check
CreateInstanceEphemeral ==
    /\ pc = "ephemeral"
    /\ calls' = Append(calls, Call("ephemeral_gb", instance.name,
                                   IF instance.ephemeral_gb > 0 THEN "True"
                                   ELSE "False"))
    /\ IF EphemeralRejected(instance)
       THEN Raise("NovaException: Ephemeral block devices is not supported.")
       ELSE pc' = "create_container" /\ exc' = exc
    /\ UNCHANGED <<conf, containerState, console_log,
                   op, ret, instance, network_info, suffix, containers,
                   idx, events, waitOutcome, opStatus>>

\* create_instance: container_config.create_container
CreateInstanceConfig ==
    /\ pc = "create_container"
    /\ \E res \in {"ok", "ConfigError"} :
          /\ calls' = Append(calls, Call("create_container", instance.name, res))
          /\ IF res = "ok" THEN pc' = "container_init" /\ exc' = exc
             ELSE Raise(res)
    /\ UNCHANGED <<conf, containerState, console_log,
                   op, ret, instance, network_info, suffix, containers,
                   idx, events, waitOutcome, opStatus>>

CreateInstanceInit_IgnoreFailure ==
    /\ pc = "container_init"
    /\ \E res \in {"ok", "RemoteOperationFailure"} :
          /\ calls' = Append(calls, Call("container_init", instance.name, res))
          /\ pc' = "start_instance"
          /\ exc' = exc
          /\ containers' = IF res = "ok" THEN containers \cup {instance.name}
                           ELSE containers
    /\ UNCHANGED <<conf, containerState, console_log, op, ret, instance,
                   network_info, suffix, idx, events, waitOutcome, opStatus>>

\* create_instance: container_utils.container_init, then start_instance
CreateInstanceInit ==
    /\ pc = "container_init"
    /\ \E res \in {"ok", "RemoteOperationFailure"} :
          /\ calls' = Append(calls, Call("container_init", instance.name, res))
          /\ IF res = "ok"
             THEN /\ pc' = "start_instance"
                  /\ exc' = exc
                  /\ containers' = containers \cup {instance.name}
             ELSE /\ Raise(res)
                  /\ containers' = containers
    /\ UNCHANGED <<conf, containerState, console_log, op, ret, instance,
                   network_info, suffix, idx, events, waitOutcome, opStatus>>

\* start_instance(instance, network_info), called by the driver
CallStart ==
    /\ pc = "idle"
    /\ instance' = [NoInstance EXCEPT !.name = "vm-a"]
    /\ network_info' \in NetworkInfos
    /\ op' = "start_instance"
    /\ pc' = "start_instance"
    /\ UNCHANGED <<conf, containerState, console_log,
                   calls, exc, ret, suffix, containers, idx, events,
                   waitOutcome, opStatus>>

StartEvents_RunningSkipsPlug ==
    /\ pc = "start_instance"
    /\ \E running \in BOOLEAN :
          /\ calls' = calls \o
                <<Call("container_running", instance.name,
                       IF running THEN "True" ELSE "False"),
                  Call("wait_for_instance_event", instance.name, "enter")>>
          /\ events' = IF ~running /\ neutron /\ vif_plugging_timeout # 0
                       THEN get_neutron_events(network_info)
                       ELSE <<>>
          /\ idx' = IF running THEN Len(network_info) + 1 ELSE 1
    /\ pc' = "plug_vifs"
    /\ UNCHANGED <<conf, containerState, console_log,
                   op, exc, ret, instance, network_info, suffix,
                   containers, waitOutcome, opStatus>>

\* start_instance: the events to wait for, and entering the `with'
StartEvents ==
    /\ pc = "start_instance"
    /\ \E running \in BOOLEAN :
          /\ calls' = calls \o
                <<Call("container_running", instance.name,
                       IF running THEN "True" ELSE "False"),
                  Call("wait_for_instance_event", instance.name, "enter")>>
          /\ events' = IF ~running /\ neutron /\ vif_plugging_timeout # 0
                       THEN get_neutron_events(network_info)
                       ELSE <<>>
    /\ idx' = 1
    /\ pc' = "plug_vifs"
    /\ UNCHANGED <<conf, containerState, console_log,
                   op, exc, ret, instance, network_info, suffix,
                   containers, waitOutcome, opStatus>>

\* what follows an exception e in the try block, "none" for none
AfterTry(e) ==
    IF e = "none" \/ CaughtInStart(e)
    THEN pc' = "container_start" /\ exc' = exc
    ELSE Raise(e)

PlugVif_Retry ==
    /\ pc = "plug_vifs"
    /\ idx <= Len(network_info)
    /\ \E res \in PlugResults :
          /\ calls' = Append(calls, Call("vif_driver.plug",
                                         network_info[idx].id, res))
          /\ idx' = IF res = "ok" THEN idx + 1 ELSE idx
          /\ UNCHANGED <<pc, exc, waitOutcome>>
    /\ UNCHANGED <<conf, containerState, console_log,
                   op, ret, instance, network_info, suffix, containers,
                   events, opStatus>>

\* plug_vifs: one iteration of `for vif in network_info'
PlugVif ==
    /\ pc = "plug_vifs"
    /\ idx <= Len(network_info)
    /\ \E res \in PlugResults :
          /\ calls' = Append(calls, Call("vif_driver.plug",
                                         network_info[idx].id, res))
          /\ IF res = "ok"
             THEN /\ idx' = idx + 1
                  /\ UNCHANGED <<pc, exc, waitOutcome>>
             ELSE /\ idx' = idx
                  /\ waitOutcome' = "plug_error"
                  /\ AfterTry(res)
    /\ UNCHANGED <<conf, containerState, console_log,
                   op, ret, instance, network_info, suffix, containers,
                   events, opStatus>>

\* leaving the `with': the wait for the events ends
WaitExit ==
    /\ pc = "plug_vifs"
    /\ idx > Len(network_info)
    /\ \E outcome \in WaitOutcomes(events) :
          /\ waitOutcome' = outcome
          /\ calls' = Append(calls, Call("wait_for_instance_event",
                                         instance.name, outcome))
          /\ AfterTry(WaitRaises(outcome, vif_plugging_is_fatal))
    /\ UNCHANGED <<conf, containerState, console_log,
                   op, ret, instance, network_info, suffix, containers,
                   idx, events, opStatus>>

StartContainer_NoWait ==
    /\ pc = "container_start"
    /\ \E res \in {"ok", "RemoteOperationFailure"} :
          /\ calls' = Append(calls, Call("container_start", instance.name, res))
          /\ IF res = "ok"
             THEN /\ opStatus' = "running"
                  /\ ret' = None
                  /\ pc' = "done"
                  /\ exc' = exc
             ELSE /\ opStatus' = opStatus
                  /\ ret' = ret
                  /\ Raise(res)
    /\ UNCHANGED <<conf, containerState, console_log,
                   op, instance, network_info, suffix, containers,
                   idx, events, waitOutcome>>

\* container_utils.container_start(instance)
StartContainer ==
    /\ pc = "container_start"
    /\ \E res \in {"ok", "RemoteOperationFailure"} :
          /\ calls' = Append(calls, Call("container_start", instance.name, res))
          /\ IF res = "ok"
             THEN /\ opStatus' = "running"
                  /\ pc' = "wait_for_container"
                  /\ exc' = exc
             ELSE /\ opStatus' = opStatus
                  /\ Raise(res)
    /\ UNCHANGED <<conf, containerState, console_log,
                   op, ret, instance, network_info, suffix, containers,
                   idx, events, waitOutcome>>

\* the LXD host finishes the operation
OperationCompletes ==
    /\ opStatus = "running"
    /\ opStatus' \in {"success", "failure"}
    /\ UNCHANGED <<conf, containerState, console_log,
                   op, pc, calls, exc, ret, instance, network_info,
                   suffix, containers, idx, events, waitOutcome>>

\* container_utils.wait_for_container(handle): returns once the operation
\* has a final status, raises if it failed
WaitForContainer ==
    /\ pc = "wait_for_container"
    /\ opStatus \in {"success", "failure"}
    /\ calls' = Append(calls, Call("wait_for_container", OperationHandle,
                                   opStatus))
    /\ IF opStatus = "success"
       THEN ret' = None /\ pc' = "done" /\ exc' = exc
       ELSE ret' = ret /\ Raise("RemoteOperationFailure")
    /\ UNCHANGED <<conf, containerState, console_log,
                   op, instance, network_info, suffix, containers, idx,
                   events, waitOutcome, opStatus>>

\* what a call to the VIF driver can answer
VifResults == {"ok", "error"}

\* get_rescue_container(client, instance):
\* return get_container(client, instance, '-rescue')
CallGetRescueContainer ==
    /\ pc = "idle"
    /\ \E id \in Ids :
         \E name \in InstanceNames(id) :
           \E cs \in SUBSET {n \o s : n \in InstanceNames(id), s \in Suffixes} :
              /\ instance' = [NoInstance EXCEPT !.name = name, !.id = id]
              /\ containers' = cs
    /\ suffix' = "-rescue"
    /\ op' = "get_rescue_container"
    /\ pc' = "criteria"
    /\ idx' = 1
    /\ UNCHANGED <<conf, containerState, console_log, calls, exc, ret,
                   network_info, events, waitOutcome, opStatus>>

\* unplug_vifs(instance, network_info), called by the driver
CallUnplugVifs ==
    /\ pc = "idle"
    /\ instance' = [NoInstance EXCEPT !.name = "vm-a"]
    /\ network_info' \in NetworkInfos
    /\ op' = "unplug_vifs"
    /\ pc' = "unplug_vifs"
    /\ idx' = 1
    /\ UNCHANGED <<conf, containerState, console_log,
                   calls, exc, ret, suffix, containers, events,
                   waitOutcome, opStatus>>

\* unplug_vifs: one iteration of `for vif in network_info' (the body calls
\* vif_driver.plug), and the return after the last one
UnplugVif ==
    /\ pc = "unplug_vifs"
    /\ IF idx <= Len(network_info)
       THEN \E res \in VifResults :
               /\ calls' = Append(calls, Call("vif_driver.plug",
                                              network_info[idx].id, res))
               /\ IF res = "ok"
                  THEN idx' = idx + 1 /\ UNCHANGED <<pc, exc>>
                  ELSE idx' = idx /\ Raise("NovaException")
               /\ ret' = ret
       ELSE /\ ret' = None
            /\ pc' = "done"
            /\ UNCHANGED <<calls, exc, idx>>
    /\ UNCHANGED <<conf, containerState, console_log,
                   op, instance, network_info, suffix, containers,
                   events, waitOutcome, opStatus>>

cleanup_ByUnplugVifs == "unplug_vifs"

\* cleanup(context, instance, network_info, block_device_info):
\* return self.container_utils.container_cleanup(...)
cleanup == "container_cleanup"

CallCleanup ==
    /\ pc = "idle"
    /\ instance' = [NoInstance EXCEPT !.name = "vm-a"]
    /\ network_info' \in NetworkInfos
    /\ op' = "cleanup"
    /\ pc' = cleanup
    /\ idx' = 1
    /\ UNCHANGED <<conf, containerState, console_log,
                   calls, exc, ret, suffix, containers, events,
                   waitOutcome, opStatus>>

\* container_utils.container_cleanup: every VIF of network_info is unplugged,
\* a failure is logged and the next VIF is taken; then the working directory
\* is released
ContainerCleanup ==
    /\ pc = "container_cleanup"
    /\ IF idx <= Len(network_info)
       THEN \E res \in VifResults :
               /\ calls' = Append(calls, Call("vif_driver.unplug",
                                              network_info[idx].id, res))
               /\ idx' = idx + 1
               /\ UNCHANGED <<pc, ret>>
       ELSE /\ calls' = Append(calls, Call("rmtree", instance.name, "ok"))
            /\ ret' = None
            /\ pc' = "done"
            /\ idx' = idx
    /\ UNCHANGED <<conf, containerState, console_log,
                   op, exc, instance, network_info, suffix, containers,
                   events, waitOutcome, opStatus>>


DestroyContainer_NoCleanup ==
    /\ pc = "destroy"
    /\ \E res \in {"ok", "RemoteOperationFailure"} :
          /\ calls' = Append(calls, Call("container_destroy", instance.name, res))
          /\ IF res = "ok"
             THEN /\ containers' = containers \ {instance.name}
                  /\ ret' = None
                  /\ pc' = "done"
                  /\ exc' = exc
             ELSE /\ ret' = ret
                  /\ Raise(res)
                  /\ containers' = containers
    /\ idx' = 1
    /\ UNCHANGED <<conf, containerState, console_log, op, instance, network_info, suffix,
                   events, waitOutcome, opStatus>>

\* destroy(context, instance, network_info, block_device_info, ...), called
\* by the driver for a container that is running or stopped
CallDestroy ==
    /\ pc = "idle"
    /\ instance' = [NoInstance EXCEPT !.name = "vm-a"]
    /\ network_info' \in NetworkInfos
    /\ containers' = {"vm-a"}
    /\ containerState' \in {"Running", "Stopped"}
    /\ op' = "destroy"
    /\ pc' = "destroy"
    /\ UNCHANGED <<conf, console_log, calls, exc, ret, suffix, idx, events,
                   waitOutcome, opStatus>>

\* destroy: container_utils.container_destroy(instance), then self.cleanup
DestroyContainer ==
    /\ pc = "destroy"
    /\ \E res \in {"ok", "RemoteOperationFailure"} :
          IF res = "ok"
          THEN /\ calls' = calls \o
                     <<Call("container_destroy", instance.name, res),
                       Call("cleanup", instance.name, "called")>>
               /\ containers' = containers \ {instance.name}
               /\ pc' = cleanup
               /\ exc' = exc
          ELSE /\ calls' = Append(calls,
                              Call("container_destroy", instance.name, res))
               /\ Raise(res)
               /\ containers' = containers
    /\ idx' = 1
    /\ UNCHANGED <<conf, containerState, console_log, op, ret, instance, network_info, suffix,
                   events, waitOutcome, opStatus>>

\* pause, unpause, suspend, resume, power_on, power_off, reboot
StateTransitions == {"pause", "unpause", "suspend", "resume",
                     "power_on", "power_off", "reboot"}

RemoteCallOf_OwnSuspend(o) ==
    CASE o = "pause" -> "container_pause"
      [] o = "unpause" -> "container_unpause"
      [] o = "suspend" -> "container_suspend"
      [] o = "resume" -> "container_resume"
      [] o = "power_on" -> "container_start"
      [] o = "power_off" -> "container_stop"
      [] o = "reboot" -> "container_reboot"

\* the session call each of them makes (the one its unit test patches)
RemoteCallOf(o) ==
    CASE o = "pause" -> "container_pause"
      [] o = "unpause" -> "container_unpause"
      [] o = "suspend" -> "container_pause"
      [] o = "resume" -> "container_unpause"
      [] o = "power_on" -> "container_start"
      [] o = "power_off" -> "container_stop"
      [] o = "reboot" -> "container_reboot"

CallStateTransition ==
    /\ pc = "idle"
    /\ instance' = [NoInstance EXCEPT !.name = "vm-a"]
    /\ network_info' \in {ni \in NetworkInfos : Len(ni) <= 1}
    /\ op' \in StateTransitions
    /\ pc' = "transition"
    /\ UNCHANGED <<conf, containerState, console_log, calls, exc, ret, suffix,
                   containers, idx, events, waitOutcome, opStatus>>

\* the one remote call of the operation; None is returned
StateTransition ==
    /\ pc = "transition"
    /\ \E res \in {"ok", "RemoteOperationFailure"} :
          /\ calls' = Append(calls, Call(RemoteCallOf(op), instance.name, res))
          /\ IF res = "ok"
             THEN ret' = None /\ pc' = "done" /\ exc' = exc
             ELSE ret' = ret /\ Raise(res)
    /\ UNCHANGED <<conf, containerState, console_log, op, instance,
                   network_info, suffix, containers, idx, events, waitOutcome,
                   opStatus>>

\* oslo_utils.units.Ki
Ki == 1024

MAX_CONSOLE_BYTES_Decimal == 100 * 1000

MAX_CONSOLE_BYTES == 100 * Ki

\* sizes of the console log, around the limit of 102400 bytes
LogSizes == {0, 1, 102399, 102400} \cup {102400 + k : k \in 1..MaxOverrun}

\* utils.last_bytes(fp, num): seek num bytes back from the end, or to the
\* start when the file has fewer; (what is read from there on, the offset).
\* The data are given by the offset of their first byte and their length.
last_bytes(size, num) ==
    LET remaining == IF num > size THEN 0 ELSE size - num
    IN  <<[offset |-> remaining, length |-> size - remaining], remaining>>

\* get_console_output(context, instance), called by the driver
CallGetConsoleOutput ==
    /\ pc = "idle"
    /\ instance' = [NoInstance EXCEPT !.name = "vm-a"]
    /\ console_log' \in LogSizes
    /\ op' = "get_console_output"
    /\ pc' = "chown"
    /\ UNCHANGED <<conf, containerState, calls, exc, ret, network_info, suffix,
                   containers, idx, events, waitOutcome, opStatus>>

\* get_console_output: utils.execute('chown', ...), utils.execute('chmod', ...)
ConsoleOwnership ==
    /\ pc = "chown"
    /\ \E chown \in {"ok", "ProcessExecutionError"},
          chmod \in {"ok", "ProcessExecutionError"} :
          IF chown # "ok"
          THEN /\ calls' = Append(calls, Call("chown", instance.name, chown))
               /\ Raise(chown)
          ELSE /\ calls' = calls \o <<Call("chown", instance.name, chown),
                                      Call("chmod", instance.name, chmod)>>
               /\ IF chmod # "ok" THEN Raise(chmod)
                  ELSE pc' = "read" /\ exc' = exc
    /\ UNCHANGED <<conf, containerState, console_log, op, ret, instance,
                   network_info, suffix, containers, idx, events, waitOutcome,
                   opStatus>>

\* get_console_output: open the log, utils.last_bytes, return log_data
ConsoleRead ==
    /\ pc = "read"
    /\ calls' = calls \o <<Call("open", instance.name, "ok"),
                           Call("last_bytes", instance.name, "ok")>>
    /\ ret' = last_bytes(console_log, MAX_CONSOLE_BYTES)[1]
    /\ pc' = "done"
    /\ UNCHANGED <<conf, containerState, console_log, op, exc, instance,
                   network_info, suffix, containers, idx, events, waitOutcome,
                   opStatus>>

Next ==
    \/ CallGetContainer
    \/ GetContainerQuery
    \/ CallGetRescueContainer
    \/ CallSpawn
    \/ SpawnCheckDefined
    \/ CreateInstanceDirAndSwap
    \/ CreateInstanceEphemeral
    \/ CreateInstanceConfig
    \/ CreateInstanceInit
    \/ CallStart
    \/ StartEvents
    \/ PlugVif
    \/ WaitExit
    \/ StartContainer
    \/ OperationCompletes
    \/ WaitForContainer
    \/ CallUnplugVifs
    \/ UnplugVif
    \/ CallCleanup
    \/ ContainerCleanup
    \/ CallDestroy
    \/ DestroyContainer
    \/ CallStateTransition
    \/ StateTransition
    \/ CallGetConsoleOutput
    \/ ConsoleOwnership
    \/ ConsoleRead

Spec == Init /\ [][Next]_vars

-----------------------------------------------------------------------------
(* Properties *)

InStart == op \in {"start_instance", "spawn"}

InGetContainer == op = "get_container"

CurrentName == instance.name \o suffix

HistoricalSuffixed == HistoricalName(instance.id) \o suffix

Misses == {"NotFound", "none"}

\* C1: with vif_plugging_is_fatal set, once the event wait has timed out or
\* a plugging failure was reported, start_instance has raised
\* VirtualInterfaceCreateException and container_start is never issued.
C1_FatalPluggingAbortsStart ==
    (InStart /\ vif_plugging_is_fatal /\ waitOutcome \in {"timeout", "failed"})
        => /\ pc = "done"
           /\ exc = VirtualInterfaceCreateException
           /\ ~Issued("container_start")

\* C2: with vif_plugging_is_fatal unset, a timeout of the event wait raises
\* nothing and start_instance goes on to issue container_start.
C2_NonFatalTimeoutStillStarts ==
    (InStart /\ ~vif_plugging_is_fatal /\ waitOutcome = "timeout")
        => /\ exc = "none"
           /\ pc \in {"container_start", "wait_for_container", "done"}
           /\ (pc \in {"wait_for_container", "done"}
                  => Issued("container_start"))

\* C3: an error that is no miss on the query for the current name leaves
\* get_container at once: it is raised to the caller after that one query.
C3_TransientErrorPropagates ==
    (InGetContainer /\ Len(calls) >= 1
        /\ calls[1].res = "TransientRemoteError")
        => /\ pc = "done"
           /\ exc = "TransientRemoteError"
           /\ Len(calls) = 1

\* C4: when the host has a container under the current name and answers the
\* query for it, get_container returns that container after this single
\* query; queries are made for the current name first and the legacy name
\* second, and none follows a hit.
C4_CurrentNameFirst ==
    InGetContainer =>
        /\ Len(calls) <= 2
        /\ (Len(calls) >= 1 => calls[1].arg = CurrentName)
        /\ (Len(calls) >= 2 => /\ calls[2].arg = HistoricalSuffixed
                               /\ calls[1].res # "found")
        /\ (Len(calls) >= 1 /\ CurrentName \in containers
              /\ calls[1].res # "TransientRemoteError")
             => /\ pc = "done"
                /\ ret = CurrentName
                /\ exc = "none"
                /\ Len(calls) = 1

C4_Witness ==
    /\ InGetContainer /\ pc = "done"
    /\ instance.name # HistoricalName(instance.id)
    /\ {CurrentName, HistoricalSuffixed} \subseteq containers
    /\ ret = CurrentName

\* C5: when the query for the current name misses and the host has a
\* container under "instance-" followed by the 8 zero-padded hex digits of
\* the id (and answers the query for it), get_container returns that
\* container.
C5_LegacyFallback ==
    (InGetContainer /\ pc = "done" /\ calls[1].res \in Misses
        /\ HistoricalSuffixed \in containers
        /\ (Len(calls) >= 2 => calls[2].res # "TransientRemoteError"))
        => /\ Len(calls) = 2
           /\ calls[2].arg = HistoricalSuffixed
           /\ ret = HistoricalSuffixed
           /\ exc = "none"

C5_Witness ==
    /\ InGetContainer /\ pc = "done"
    /\ instance.id > 15
    /\ calls[1].res = "NotFound"
    /\ HistoricalSuffixed \in containers
    /\ ret = HistoricalSuffixed

\* C6: when every query misses (NotFound raised, or no object returned),
\* get_container returns None, raises nothing, and has queried each of the
\* two candidates once.
C6_AllMissReturnsNone ==
    (InGetContainer /\ pc = "done"
        /\ \A i \in 1..Len(calls) : calls[i].res \in Misses)
        => /\ ret = None
           /\ exc = "none"
           /\ Len(calls) = 2
           /\ calls[1].arg = CurrentName
           /\ calls[2].arg = HistoricalSuffixed

C6_Witness ==
    /\ InGetContainer /\ pc = "done"
    /\ Len(calls) = 2
    /\ calls[1].res = "none" /\ calls[2].res = "NotFound"
    /\ ret = None

DefinedReported ==
    \E i \in CallsOf("container_defined") : calls[i].res = "True"

\* C7: a spawn whose existence check reports a defined container raises
\* InstanceExists and issues no config synthesis, no define, no VIF plug and
\* no start.
C7_SpawnExistingFails ==
    (op = "spawn" /\ DefinedReported)
        => /\ pc = "done"
           /\ exc = "InstanceExists"
           /\ ~Issued("create_container")
           /\ ~Issued("container_init")
           /\ ~Issued("vif_driver.plug")
           /\ ~Issued("container_start")

C7_Witness ==
    /\ op = "spawn" /\ DefinedReported /\ pc = "done"
    /\ instance.ephemeral_gb = 0 /\ Len(network_info) > 0

RemoteCalls == {"container_defined", "container_init", "container_running",
                "container_start", "wait_for_container"}

EphemeralError == "NovaException: Ephemeral block devices is not supported."

SwapError == "NovaException: Swap space is not supported by LXD."

\* C8 as stated: a spawn with ephemeral_gb > 0 fails with the unsupported
\* configuration error and has made no call to the LXD host (existence
\* query, define, start) before it.
C8_EphemeralBeforeAnyRemoteCall ==
    (op = "spawn" /\ instance.ephemeral_gb > 0)
        => /\ \A i \in 1..Len(calls) : calls[i].fn \notin RemoteCalls
           /\ (pc = "done" => exc \in {EphemeralError, SwapError})

\* C8 amended: a spawn with ephemeral_gb > 0 fails - with InstanceExists
\* when the existence check reports a container, otherwise with the
\* NovaException for the unsupported swap or ephemeral device - and the only
\* call made to the LXD host is the existence query: no config synthesis, no
\* define, no VIF plug and no start is issued.
C8_EphemeralBeforeDefine ==
    (op = "spawn" /\ instance.ephemeral_gb > 0)
        => /\ \A i \in 1..Len(calls) :
                 calls[i].fn \in RemoteCalls => calls[i].fn = "container_defined"
           /\ ~Issued("create_container")
           /\ ~Issued("vif_driver.plug")
           /\ pc \in {"spawn", "create_instance", "ephemeral", "done"}
           /\ (pc = "done" =>
                 /\ ret = "unset"
                 /\ exc = (IF DefinedReported THEN "InstanceExists"
                           ELSE IF instance.swap THEN SwapError
                           ELSE EphemeralError))

C8_Witness ==
    /\ op = "spawn" /\ instance.ephemeral_gb > 0 /\ pc = "done"
    /\ exc = EphemeralError
    /\ Issued("container_defined")

VifCallsFor(i) ==
    {k \in 1..Len(calls) :
        /\ calls[k].fn \in {"vif_driver.plug", "vif_driver.unplug"}
        /\ calls[k].arg = network_info[i].id}

FailedVifCalls ==
    {k \in 1..Len(calls) :
        /\ calls[k].fn \in {"vif_driver.plug", "vif_driver.unplug"}
        /\ calls[k].res # "ok"}

C10_ReturnsAfterOperationEnds ==
    (InStart /\ pc = "done" /\ exc = "none")
        => /\ Len(calls) >= 2
           /\ calls[Len(calls) - 1] = Call("container_start", instance.name, "ok")
           /\ calls[Len(calls)].fn = "wait_for_container"
           /\ calls[Len(calls)].arg = "op-1"
           /\ opStatus \in {"success", "failure"}
           /\ calls[Len(calls)].res = opStatus

C10_Witness ==
    /\ op = "start_instance" /\ pc = "done" /\ exc = "none"
    /\ opStatus = "success"
    /\ ret = None

\* C11: destroy issues container_destroy first and calls cleanup only after
\* it has succeeded, for a running and for a stopped container alike; a
\* destroy that returns has called cleanup exactly once.
C11_DestroyThenCleanup ==
    op = "destroy" =>
        /\ \A i \in CallsOf("cleanup") \cup CallsOf("vif_driver.unplug")
                    \cup CallsOf("rmtree") :
              /\ i > 1
              /\ calls[1] = Call("container_destroy", "vm-a", "ok")
        /\ Cardinality(CallsOf("container_destroy")) <= 1
        /\ (pc = "done" /\ exc = "none")
             => /\ Cardinality(CallsOf("cleanup")) = 1
                /\ calls[2].fn = "cleanup"
                /\ Issued("rmtree")

C11_Witness ==
    /\ op = "destroy" /\ pc = "done" /\ exc = "none"
    /\ containerState = "Stopped"
    /\ Len(network_info) = 2
    /\ calls[2].fn = "cleanup"
    /\ containers = {}

ExpectedSessionCall ==
    [pause |-> "container_pause", unpause |-> "container_unpause",
     suspend |-> "container_pause", resume |-> "container_unpause",
     power_on |-> "container_start", power_off |-> "container_stop",
     reboot |-> "container_reboot"]

\* C12: each of pause, unpause, suspend, resume, power_on, power_off and
\* reboot issues one remote call, its own, and returns None; the call of
\* suspend is that of pause and the call of resume that of unpause.
C12_SuspendIsPause ==
    (op \in DOMAIN ExpectedSessionCall /\ pc = "done")
        => /\ Len(calls) = 1
           /\ calls[1].fn = ExpectedSessionCall[op]
           /\ calls[1].arg = instance.name
           /\ (exc = "none" => ret = None)
           /\ (exc # "none" => ret = "unset")

C12_Witness ==
    /\ op = "suspend" /\ pc = "done" /\ exc = "none"
    /\ calls = <<Call("container_pause", "vm-a", "ok")>>
    /\ ret = None

\* C13: get_console_output returns the last 102400 bytes of a console log
\* longer than that and the whole of a shorter one; chown and chmod have
\* been run before the log is opened.
C13_ConsoleTail ==
    (op = "get_console_output" /\ pc = "done" /\ exc = "none")
        => /\ ret.offset + ret.length = console_log
           /\ (console_log > 102400 => ret.length = 102400)
           /\ (console_log <= 102400 => ret.offset = 0)
           /\ calls = <<Call("chown", "vm-a", "ok"), Call("chmod", "vm-a", "ok"),
                        Call("open", "vm-a", "ok"),
                        Call("last_bytes", "vm-a", "ok")>>

C13_Witness ==
    /\ op = "get_console_output" /\ pc = "done" /\ exc = "none"
    /\ console_log = 102401
    /\ ret = [offset |-> 1, length |-> 102400]

CallsForVif(fn, i) ==
    {k \in CallsOf(fn) : calls[k].arg = network_info[i].id}

\* C14: unplug_vifs issues no vif_driver.plug call, and when it returns it
\* has issued one vif_driver.unplug call for every interface of
\* network_info.
C14_UnplugVifsUnplugs ==
    op = "unplug_vifs" =>
        /\ ~Issued("vif_driver.plug")
        /\ (pc = "done" /\ exc = "none")
             => \A i \in 1..Len(network_info) :
                   Cardinality(CallsForVif("vif_driver.unplug", i)) = 1

OnceSteps == <<"container_defined", "ensure_tree", "swap_is_usable",
               "ephemeral_gb", "create_container", "container_init">>

\* C15: a spawn that returns has made, each once and in this order: the
\* existence check, the working directory, the swap check, the ephemeral
\* check, config synthesis, the define, the VIF plugs between entering the
\* event wait and the start, the start, the wait on its operation.  A spawn
\* with a usable swap device fails and issues no config synthesis, define
\* or start.
C15_SpawnOrder ==
    op = "spawn" =>
        /\ (pc = "done" /\ exc = "none")
             => /\ Len(calls) >= 10
                /\ \A i \in 1..6 : /\ calls[i].fn = OnceSteps[i]
                                   /\ CallsOf(OnceSteps[i]) = {i}
                /\ calls[7].fn = "container_running"
                /\ calls[8] = Call("wait_for_instance_event", "vm-a", "enter")
                /\ \A k \in 9..(Len(calls) - 2) :
                      calls[k].fn \in {"vif_driver.plug",
                                       "wait_for_instance_event"}
                /\ \A k \in CallsOf("wait_for_instance_event") :
                      k = 8 \/ k = Len(calls) - 2
                /\ CallsOf("container_start") = {Len(calls) - 1}
                /\ CallsOf("wait_for_container") = {Len(calls)}
                /\ \A i \in 1..Len(network_info) :
                      Cardinality(CallsForVif("vif_driver.plug", i)) <= 1
        /\ instance.swap
             => /\ ~Issued("create_container")
                /\ ~Issued("container_init")
                /\ ~Issued("container_start")
                /\ (pc = "done" => exc \in {"InstanceExists", SwapError})

C15_Witness ==
    /\ op = "spawn" /\ pc = "done" /\ exc = "none"
    /\ Len(network_info) = 2
    /\ Len(calls) = 13
    /\ calls[9].fn = "vif_driver.plug" /\ calls[10].fn = "vif_driver.plug"
    /\ calls[11] = Call("wait_for_instance_event", "vm-a", "ok")

RunningReported ==
    \E k \in CallsOf("container_running") : calls[k].res = "True"

EventsComputed == InStart /\ Issued("container_running")

ExpectedEvents ==
    IF ~RunningReported /\ neutron /\ vif_plugging_timeout # 0
    THEN {<<"network-vif-plugged", network_info[i].id>> :
             i \in {j \in 1..Len(network_info) :
                       network_info[j].active = "False"}}
    ELSE {}

\* C16: the events start_instance waits for are one network-vif-plugged
\* event for each VIF whose 'active' is False, when the container is not
\* running, neutron is in use and the timeout is not 0; otherwise there are
\* none.  A VIF without 'active' gives no event.
C16_EventsWaitedFor ==
    EventsComputed =>
        /\ {events[k] : k \in 1..Len(events)} = ExpectedEvents
        /\ Len(events) = Cardinality(ExpectedEvents)

C16_Witness ==
    /\ EventsComputed
    /\ Len(network_info) = 3
    /\ network_info[1].active = "absent"
    /\ network_info[2].active = "False"
    /\ network_info[3].active = "True"
    /\ events = <<<<"network-vif-plugged", "vif-2">>>>

FailedCall(fn) == \E k \in CallsOf(fn) : calls[k].res # "ok"

Compensations == {"container_destroy", "vif_driver.unplug", "cleanup",
                  "rmtree"}

\* C17: a spawn issues no delete, no VIF unplug and no cleanup.  A failure of
\* config synthesis, of the define, of the start or of the wait on the start
\* is what spawn raises; a container that was defined stays defined; after a
\* failed config synthesis or define there is no VIF plug and no start.
C17_NoRollback ==
    op = "spawn" =>
        /\ \A k \in 1..Len(calls) : calls[k].fn \notin Compensations
        /\ (\E k \in CallsOf("container_init") : calls[k].res = "ok")
             => instance.name \in containers
        /\ FailedCall("create_container")
             => /\ pc = "done" /\ exc = "ConfigError"
                /\ ~Issued("container_init")
        /\ FailedCall("container_init")
             => /\ pc = "done" /\ exc = "RemoteOperationFailure"
                /\ instance.name \notin containers
        /\ (FailedCall("create_container") \/ FailedCall("container_init"))
             => /\ ~Issued("vif_driver.plug")
                /\ ~Issued("container_start")
        /\ FailedCall("container_start")
             => /\ pc = "done" /\ exc = "RemoteOperationFailure"
                /\ calls[Len(calls)].fn = "container_start"

C17_Witness ==
    /\ op = "spawn" /\ pc = "done"
    /\ FailedCall("container_start")
    /\ Issued("vif_driver.plug")
    /\ containers = {"vm-a"}

\* C18: in a spawn, a start_instance or a destroy, the define, the start and
\* the delete are each issued at most once, and vif_driver.plug at most once
\* for each interface, whatever the calls answered.
C18_NoRetry ==
    op \in {"spawn", "start_instance", "destroy"} =>
        /\ Cardinality(CallsOf("container_init")) <= 1
        /\ Cardinality(CallsOf("container_start")) <= 1
        /\ Cardinality(CallsOf("container_destroy")) <= 1
        /\ \A i \in 1..Len(network_info) :
              Cardinality(CallsForVif("vif_driver.plug", i)) <= 1

C18_Witness ==
    /\ op = "start_instance" /\ pc = "done"
    /\ exc = "NovaException"
    /\ Len(network_info) = 2
    /\ calls[Len(calls)] = Call("vif_driver.plug", "vif-2", "NovaException")

RescueCandidates ==
    <<instance.name \o "-rescue", HistoricalName(instance.id) \o "-rescue">>

\* C19: get_rescue_container queries the current name and then the legacy
\* name, each with "-rescue" appended, never a name without it, and returns
\* as get_container does: the first container found, else None.
C19_RescueSuffix ==
    op = "get_rescue_container" =>
        /\ Len(calls) <= 2
        /\ \A k \in 1..Len(calls) :
              /\ calls[k].fn = "containers.get"
              /\ calls[k].arg = RescueCandidates[k]
              /\ (k < Len(calls) => calls[k].res # "found")
        /\ pc = "done"
             => /\ exc = "none"
                /\ ret = (IF calls[Len(calls)].res = "found"
                          THEN RescueCandidates[Len(calls)] ELSE None)
                /\ (ret = None => Len(calls) = 2)

C19_Witness ==
    /\ op = "get_rescue_container" /\ pc = "done"
    /\ instance.name = "vm-a"
    /\ containers = {"vm-a", HistoricalName(instance.id),
                     HistoricalName(instance.id) \o "-rescue"}
    /\ Len(calls) = 2
    /\ ret = HistoricalName(instance.id) \o "-rescue"

\* C20: when container_running reports a running container, start_instance
\* waits for no event, and still plugs the VIFs, issues container_start and
\* waits on its operation: if it returns and no plug failed, every
\* interface was plugged once, before the start.
C20_RunningStillPlugsAndStarts ==
    (InStart /\ RunningReported) =>
        /\ events = <<>>
        /\ waitOutcome \in {"none", "ok", "plug_error"}
        /\ (Issued("container_start") /\ waitOutcome = "ok")
             => \A i \in 1..Len(network_info) :
                   /\ Cardinality(CallsForVif("vif_driver.plug", i)) = 1
                   /\ \A k \in CallsForVif("vif_driver.plug", i) :
                         \A j \in CallsOf("container_start") : k < j
        /\ (pc = "done" /\ exc = "none")
             => /\ waitOutcome \in {"ok", "plug_error"}
                /\ calls[Len(calls) - 1].fn = "container_start"
                /\ calls[Len(calls)].fn = "wait_for_container"

C20_Witness ==
    /\ op = "start_instance" /\ RunningReported
    /\ pc = "done" /\ exc = "none"
    /\ neutron /\ vif_plugging_timeout # 0
    /\ Len(network_info) = 2
    /\ network_info[1].active = "False"
    /\ waitOutcome = "ok"
    /\ Cardinality(CallsOf("vif_driver.plug")) = 2

=============================================================================
